---- MODULE Spec2Model ----
(***************************************************************************)
(* Verification model of the mcp-proxy repository.                         *)
(*                                                                         *)
(*   SpecHub  - the session hub: the in-memory session map, the request    *)
(*              handlers and the background cleanup task                   *)
(*              (src/src/mcp_proxy_hub/session.py, routes.py, hub-mcp.py). *)
(*   SpecStore - the three server stores and their create, update and      *)
(*              delete operations (src/registry/database.py,               *)
(*              src/mcp_registry/database/repositories.py,                 *)
(*              src/mcp_registry/repositories/server.py).                  *)
(*   SpecDisc - capability discovery: concurrent discovery calls with the  *)
(*              freshness cache, capability storage and attempt rows       *)
(*              (src/registry/capability_discovery.py,                     *)
(*              src/mcp_registry/services/discovery.py).                   *)
(*   SpecScan - the bulk scan over several servers                         *)
(*              (discover_multiple_servers, scan_all_servers).             *)
(***************************************************************************)
EXTENDS Integers, Sequences, FiniteSets, TLC

(***************************************************************************)
(* Bounds of the model.                                                    *)
(***************************************************************************)
\* number of distinct values secrets.token_hex(4) can return in the model
NumTokens == 3
\* the clock (datetime.utcnow()) runs over 0..MaxTime
MaxTime == 1
\* settings.session_ttl_seconds, in clock ticks
SessionTtl == 1
\* sessions created in one run of the model
MaxCreates == 3

\* server ids a store can hand out
NumServers == 3
\* distinct server URLs
NumUrls == 2
\* servers the discovery service is run against
NumDiscovered == 2
\* capability names a remote server can expose
NumCaps == 2
\* the registry clock runs over 0..MaxClock
MaxClock == 3
\* largest latency sample (response_time_ms) a ping gives
MaxSample == 1
\* the freshness window (max_age_minutes = 60), in clock ticks
FreshWindow == 2
\* rows the table capability_discoveries holds in one run of the model
MaxAttempts == 3
\* discovery calls that can be in flight at once
NumCalls == 2
\* largest max_concurrent a bulk scan is started with
MaxConcurrent == 2
\* database files (db_path values) of one process
NumPaths == 2
\* self.discovery_timeout (30 seconds), in clock ticks
DiscoveryTimeout == 2

Tokens == 1..NumTokens
Servers == 1..NumServers
DiscServers == 1..NumDiscovered
Urls == 1..NumUrls
Paths == 1..NumPaths
CapNames == 1..NumCaps
Calls == 1..NumCalls

\* the value of dict.get(key) for a key that is absent
NoSession == [expires_at |-> -1, refresh |-> "absent"]
\* no request handler has reached a session yet
NotReached == [hit |-> FALSE, future |-> FALSE, afterSweep |-> FALSE]

VARIABLES
    now,          \* datetime.utcnow()
    sessions,     \* HubState.sessions: token -> SessionData (NoSession: key absent);
                  \* the field refresh is history: "never", "before_expiry" or
                  \* "after_expiry", the last refresh since the session was created
    order,        \* insertion order of the keys of HubState.sessions
    cleanupPc,    \* position of cleanup_loop: "sleep", "closing" or "dead"
    sweepNow,     \* local `now` of the running cleanup_expired_sessions
    expired,      \* remainder of the local list `expired` of the running sweep
    sweepDoneAt,  \* history: `now` of the last sweep that returned normally
    minted,       \* number of tokens minted so far (bounds the run)
    reached       \* history: what the last successful get_session found

hubVars == <<now, sessions, order, cleanupPc, sweepNow, expired, sweepDoneAt,
             minted, reached>>

VARIABLES
    storeKind,    \* which store the run is about: "legacy", "orm" or "lite"
    servers,      \* the table servers: id -> url, for the ids that have a row
    pending,      \* ORM requests suspended between their check and their
                  \* commit: id -> [op, url]
    storeResult   \* outcome of the last store operation

storeVars == <<storeKind, servers, pending, storeResult>>

VARIABLES
    discKind,     \* which discovery service runs: "legacy" or "enterprise"
    clock,        \* datetime.utcnow() of the registry
    nextId,       \* number of server ids handed out so far
    registered,   \* ids that have a row in the table servers
    caps,         \* capability rows: server id -> set of capability names
    attempts,     \* the table capability_discoveries in insertion order:
                  \* rows [server, status, at]
    calls,        \* discovery calls suspended in their live part:
                  \* call -> [server, force]
    stats,        \* columns of the table servers: server id ->
                  \* [total, successful, avg] (total_discoveries,
                  \* successful_discoveries, avg_response_time_ms)
    response      \* what the last discovery call returned

discVars == <<discKind, clock, nextId, registered, caps, attempts, calls, stats,
             response>>

VARIABLES
    scanKind,     \* which bulk scan runs: "legacy" or "enterprise"
    scanK,        \* max_concurrent of the scan
    permits,      \* value of the asyncio.Semaphore
    taskPc,       \* per scanned server: "idle", "waiting", "running", "done"
    taskResult,   \* per scanned server: what its task returned or raised
    truth,        \* history: how the discovery of the server really went
    responses,    \* the results list of the scan: entries [server, status]
    scanPc        \* position of the scan: "idle", "scanning" or "done"

scanVars == <<scanKind, scanK, permits, taskPc, taskResult, truth, responses, scanPc>>

VARIABLES
    files,        \* the sqlite files: path -> set of the urls of its servers
    globalDb,     \* the module global _database: 0 (None) or the path of the
                  \* Database object it holds
    opened        \* the store handles the callers hold: [via, asked, file],
                  \* the path asked for and the path of the file behind it

fileVars == <<files, globalDb, opened>>

VARIABLES
    runKind,      \* which service the discovery runs belong to
    runPc,        \* per server, the position of its discovery run: "idle",
                  \* "connect", a capability class being listed, "close",
                  \* "done" (returned) or "raised"
    conn          \* per server, the client connection of the run: "none",
                  \* "open" or "closed"

connVars == <<runKind, runPc, conn>>

VARIABLE
    proxySvc      \* the enterprise ProxyService: whether FastMCP was importable
                  \* ("unset" before the module is loaded) and, per operation,
                  \* what its latest call gave back


VARIABLE
    standalone    \* the standalone proxy process (mcp_proxy_server.py): its
                  \* command line, its position, the probe's outcome, whether
                  \* a FastMCPProxy was constructed / is serving, the exit code

registryVars == <<storeVars, discVars, scanVars, fileVars, connVars, proxySvc, standalone>>

VARIABLES
    mounts,       \* prefixes mounted on the hub by hub.mount(prefix, ...)
    built,        \* number of ProxyClient objects constructed so far
    reply         \* the last REST request of the hub, or the last direct
                  \* call of validate_remote_url, and how it was answered

requestVars == <<mounts, built, reply>>

\* what the operations of one part leave alone
notStoreVars == <<hubVars, requestVars, discVars, scanVars, fileVars, connVars, proxySvc, standalone>>
notDiscVars == <<hubVars, requestVars, storeVars, scanVars, fileVars, connVars, proxySvc, standalone>>
notScanVars == <<hubVars, requestVars, storeVars, discVars, fileVars, connVars, proxySvc, standalone>>
notFileVars == <<hubVars, requestVars, storeVars, discVars, scanVars, connVars, proxySvc, standalone>>
notConnVars == <<hubVars, requestVars, storeVars, discVars, scanVars, fileVars, proxySvc, standalone>>
notProxyVars == <<hubVars, requestVars, storeVars, discVars, scanVars, fileVars, connVars, standalone>>
notStandaloneVars == <<hubVars, requestVars, storeVars, discVars, scanVars, fileVars, connVars, proxySvc>>

vars == <<hubVars, requestVars, registryVars>>

(***************************************************************************)
(* Helpers on the session map.                                             *)
(***************************************************************************)
InMap(t) == sessions[t] # NoSession

RECURSIVE RemoveKey(_, _)
RemoveKey(s, t) ==
    IF s = <<>> THEN <<>>
    ELSE IF Head(s) = t THEN RemoveKey(Tail(s), t)
    ELSE <<Head(s)>> \o RemoveKey(Tail(s), t)

\* a sweep that compares with < instead of <=
RECURSIVE ExpiredListStrict(_, _, _)
ExpiredListStrict(keys, map, n) ==
    IF keys = <<>> THEN <<>>
    ELSE IF map[Head(keys)].expires_at < n
         THEN <<Head(keys)>> \o ExpiredListStrict(Tail(keys), map, n)
         ELSE ExpiredListStrict(Tail(keys), map, n)

\* the comprehension `[sid for sid, data in self.sessions.items()
\*                     if data.expires_at <= now]`, in dict order
RECURSIVE ExpiredList(_, _, _)
ExpiredList(keys, map, n) ==
    IF keys = <<>> THEN <<>>
    ELSE IF map[Head(keys)].expires_at <= n
         THEN <<Head(keys)>> \o ExpiredList(Tail(keys), map, n)
         ELSE ExpiredList(Tail(keys), map, n)

HubInit ==
    /\ now = 0
    /\ sessions = [t \in Tokens |-> NoSession]
    /\ order = <<>>
    /\ cleanupPc = "sleep"
    /\ sweepNow = 0
    /\ expired = <<>>
    /\ sweepDoneAt = -1
    /\ minted = 0
    /\ reached = NotReached

(***************************************************************************)
(* The clock advances.                                                     *)
(***************************************************************************)
Tick ==
    /\ now < MaxTime
    /\ now' = now + 1
    /\ UNCHANGED <<sessions, order, cleanupPc, sweepNow, expired, sweepDoneAt,
                   minted, reached>>
    /\ UNCHANGED <<requestVars, registryVars>>

(***************************************************************************)
(* HubState.register_session: self.sessions[session.prefix] = session.     *)
(* An existing key keeps its position in the dict and gets the new value.  *)
(***************************************************************************)
RegisterSession(t, exp) ==
    /\ sessions' = [sessions EXCEPT ![t] = [expires_at |-> exp, refresh |-> "never"]]
    /\ order' = IF InMap(t) THEN order ELSE Append(order, t)

(***************************************************************************)
(* HubState.create_session for an accepted URL: the token is whatever      *)
(* secrets.token_hex(4) returns; expires_at = utcnow() + TTL.              *)
(***************************************************************************)
CreateSession(t) ==
    /\ minted < MaxCreates
    /\ minted' = minted + 1
    /\ built' = built + 1
    /\ mounts' = mounts \cup {t}
    /\ RegisterSession(t, now + SessionTtl)
    /\ UNCHANGED <<now, cleanupPc, sweepNow, expired, sweepDoneAt, reached>>
    /\ UNCHANGED <<reply, registryVars>>

(***************************************************************************)
(* HubState.get_session as used by list_tools, call_tool, ping, ...:       *)
(* succeeds exactly when the key is in the map (404 otherwise).  The       *)
(* history records whether the session found had its expiry in the future  *)
(* and whether its expiry was later than the last completed sweep.         *)
(***************************************************************************)
Found(t) == [hit        |-> TRUE,
             future     |-> sessions[t].expires_at > now,
             afterSweep |-> sessions[t].expires_at > sweepDoneAt]

GetSession(t) ==
    /\ InMap(t)
    /\ reached' = Found(t)
    /\ UNCHANGED <<now, sessions, order, cleanupPc, sweepNow, expired,
                   sweepDoneAt, minted>>
    /\ UNCHANGED <<requestVars, registryVars>>

(***************************************************************************)
(* The expiry a refresh at time n gives.                                   *)
(***************************************************************************)
RefreshedExpiry(n) == n + SessionTtl

(***************************************************************************)
(* HubState.refresh_session: get_session, then                             *)
(* session.expires_at = utcnow() + TTL.                                    *)
(***************************************************************************)
RefreshSession(t) ==
    /\ InMap(t)
    /\ sessions' = [sessions EXCEPT ![t] =
                        [expires_at |-> RefreshedExpiry(now),
                         refresh    |-> IF now < sessions[t].expires_at
                                        THEN "before_expiry" ELSE "after_expiry"]]
    /\ reached' = Found(t)
    /\ UNCHANGED <<now, order, cleanupPc, sweepNow, expired, sweepDoneAt, minted>>
    /\ UNCHANGED <<requestVars, registryVars>>

(***************************************************************************)
(* close_server_connection: hub_state.remove_session(server_id) pops the   *)
(* key (404 when absent), then awaits session.close().                     *)
(***************************************************************************)
CloseSession(t) ==
    /\ InMap(t)
    /\ sessions' = [sessions EXCEPT ![t] = NoSession]
    /\ order' = RemoveKey(order, t)
    /\ UNCHANGED <<now, cleanupPc, sweepNow, expired, sweepDoneAt, minted, reached>>
    /\ UNCHANGED <<requestVars, registryVars>>

(***************************************************************************)
(* cleanup_expired_sessions, cut at its suspension points.                 *)
(*                                                                         *)
(* PopNext(sid, rest, n): one iteration of `for sid in expired` up to      *)
(* `await data.close()`: data = self.sessions.pop(sid) raises KeyError     *)
(* when sid is no longer a key, which ends the cleanup task.               *)
(***************************************************************************)
PopNext(sid, rest, n) ==
    IF InMap(sid)
    THEN /\ sessions' = [sessions EXCEPT ![sid] = NoSession]
         /\ order' = RemoveKey(order, sid)
         /\ expired' = rest
         /\ sweepNow' = n
         /\ cleanupPc' = "closing"
         /\ UNCHANGED sweepDoneAt
    ELSE /\ cleanupPc' = "dead"
         /\ expired' = <<>>
         /\ sweepNow' = 0
         /\ UNCHANGED <<sessions, order, sweepDoneAt>>

\* the loop wakes up: now = utcnow(), the list `expired` is built, and the
\* first iteration runs up to its await
SweepStart ==
    /\ cleanupPc = "sleep"
    /\ LET exp == ExpiredList(order, sessions, now) IN
         IF exp = <<>>
         THEN /\ sweepDoneAt' = now
              /\ UNCHANGED <<sessions, order, cleanupPc, sweepNow, expired>>
         ELSE PopNext(Head(exp), Tail(exp), now)
    /\ UNCHANGED <<now, minted, reached>>
    /\ UNCHANGED <<requestVars, registryVars>>

\* `await data.close()` returns (disconnect errors are swallowed) and the
\* loop goes on with the next sid, or the sweep returns and the loop sleeps
SweepResume ==
    /\ cleanupPc = "closing"
    /\ IF expired = <<>>
       THEN /\ cleanupPc' = "sleep"
            /\ sweepDoneAt' = sweepNow
            /\ sweepNow' = 0
            /\ UNCHANGED <<sessions, order, expired>>
       ELSE PopNext(Head(expired), Tail(expired), sweepNow)
    /\ UNCHANGED <<now, minted, reached>>
    /\ UNCHANGED <<requestVars, registryVars>>

HubNext ==
    \/ Tick
    \/ \E t \in Tokens : CreateSession(t)
    \/ \E t \in Tokens : GetSession(t)
    \/ \E t \in Tokens : RefreshSession(t)
    \/ \E t \in Tokens : CloseSession(t)
    \/ SweepStart
    \/ SweepResume

(***************************************************************************)
(* URL validation (mcp_proxy_hub/security.py).  A URL is the scheme as it  *)
(* is written and the host between "//" and the port or path.  A host is   *)
(* written as a name, as dot-separated decimal numbers, or as a bracketed  *)
(* IPv6 literal of eight 16-bit groups.                                    *)
(***************************************************************************)
NameHost(text) == [form |-> "name", text |-> text, nums |-> <<>>]
DottedHost(nums) == [form |-> "dotted", text |-> "", nums |-> nums]
BracketedHost(groups) == [form |-> "bracketed", text |-> "", nums |-> groups]

\* sampled URLs: every network boundary the address tests look at
WrittenSchemes == {"http", "https", "HTTP", "ftp", "file"}
SampleNames == {"localhost", "localhost.", "example.com", ""}
SampleDotted ==
    {<<a, b, c, 1>> : a \in {0, 8, 10, 127, 169, 172, 192, 999},
                      b \in {0, 16, 32, 168, 254},
                      c \in {0, 2}}
        \cup {<<127, 1>>, <<192, 0, 0, 9>>, <<198, 18, 0, 1>>, <<240, 0, 0, 1>>}
SampleGroups ==
    { <<0, 0, 0, 0, 0, 0, 0, 1>>,            \* ::1
      <<0, 0, 0, 0, 0, 0, 0, 0>>,            \* ::
      <<65152, 0, 0, 0, 0, 0, 0, 1>>,        \* fe80::1
      <<64768, 0, 0, 0, 0, 0, 0, 1>>,        \* fd00::1
      <<8193, 3512, 0, 0, 0, 0, 0, 1>>,      \* 2001:db8::1
      <<9734, 18176, 0, 0, 0, 0, 0, 4369>> } \* 2606:4700::1111
SampleHosts ==
    {NameHost(n) : n \in SampleNames}
        \cup {DottedHost(d) : d \in SampleDotted}
        \cup {BracketedHost(g) : g \in SampleGroups}
SampleUrls == [scheme : WrittenSchemes, host : SampleHosts]

\* settings.allowed_schemes and settings.denied_hosts
AllowedSchemes == {"http", "https"}
DeniedHosts ==
    {NameHost("localhost"), DottedHost(<<127, 0, 0, 1>>),
     BracketedHost(<<0, 0, 0, 0, 0, 0, 0, 1>>)}

\* urlparse(url): the scheme comes back in lower case, the hostname
\* without its brackets
LowerCase(scheme) == IF scheme = "HTTP" THEN "http" ELSE scheme
UrlParse(url) == [scheme |-> LowerCase(url.scheme), hostname |-> url.host]

\* ipaddress.ip_address(hostname) returns an address instead of raising
\* ValueError: four decimal octets, or eight groups
IsIPv4(host) ==
    /\ host.form = "dotted"
    /\ Len(host.nums) = 4
    /\ \A i \in 1..4 : host.nums[i] <= 255
IsIPv6(host) == host.form = "bracketed" /\ Len(host.nums) = 8

\* IPv4Address.is_private, is_loopback, is_link_local
V4Private(o) ==
    \/ o[1] = 0
    \/ o[1] = 10
    \/ o[1] = 127
    \/ o[1] = 169 /\ o[2] = 254
    \/ o[1] = 172 /\ o[2] \div 16 = 1
    \/ o[1] = 192 /\ o[2] = 0 /\ o[3] = 0 /\ o[4] \div 8 = 0
    \/ o[1] = 192 /\ o[2] = 0 /\ o[3] = 0 /\ o[4] \in {170, 171}
    \/ o[1] = 192 /\ o[2] = 0 /\ o[3] = 2
    \/ o[1] = 192 /\ o[2] = 168
    \/ o[1] = 198 /\ o[2] \in {18, 19}
    \/ o[1] = 198 /\ o[2] = 51 /\ o[3] = 100
    \/ o[1] = 203 /\ o[2] = 0 /\ o[3] = 113
    \/ o[1] >= 240
V4Loopback(o) == o[1] = 127
V4LinkLocal(o) == o[1] = 169 /\ o[2] = 254

\* IPv6Address.is_private, is_loopback, is_link_local (addresses that are
\* not IPv4-mapped)
V6Private(g) ==
    \/ (\A i \in 1..7 : g[i] = 0) /\ g[8] \in {0, 1}
    \/ g[1] = 256 /\ g[2] = 0 /\ g[3] = 0 /\ g[4] = 0
    \/ g[1] = 8193 /\ g[2] < 512
    \/ g[1] = 8193 /\ g[2] = 3512
    \/ g[1] \div 512 = 126
    \/ g[1] \div 64 = 1018
V6Loopback(g) == (\A i \in 1..7 : g[i] = 0) /\ g[8] = 1
V6LinkLocal(g) == g[1] \div 64 = 1018

\* _is_private_ip without its is_private test
IsPrivateIpLocalOnly(host) ==
    IF IsIPv4(host)
    THEN V4Loopback(host.nums) \/ V4LinkLocal(host.nums)
    ELSE IF IsIPv6(host)
    THEN V6Loopback(host.nums) \/ V6LinkLocal(host.nums)
    ELSE FALSE

\* _is_private_ip
IsPrivateIp(host) ==
    IF IsIPv4(host)
    THEN V4Private(host.nums) \/ V4Loopback(host.nums) \/ V4LinkLocal(host.nums)
    ELSE IF IsIPv6(host)
    THEN V6Private(host.nums) \/ V6Loopback(host.nums) \/ V6LinkLocal(host.nums)
    ELSE FALSE

\* validate_remote_url: the status code of the HTTPException it raises,
\* 0 when it returns
ValidateRemoteUrl(url) ==
    LET parsed == UrlParse(url)
        host == parsed.hostname
    IN  IF parsed.scheme \notin AllowedSchemes THEN 400
        ELSE IF host \in DeniedHosts \/ IsPrivateIp(host) THEN 400
        ELSE 0

(***************************************************************************)
(* The REST requests of the hub that create and close a session, with the  *)
(* answer the caller gets.                                                 *)
(***************************************************************************)
NoUrl == [scheme |-> "", host |-> NameHost("")]
NoReply == [op |-> "none", status |-> 0, token |-> 0, url |-> NoUrl,
            disconnect |-> "none"]
ProxyOutcomes == {"ok", "raises"}
DisconnectOutcomes == {"ok", "raises"}

RequestInit ==
    /\ mounts = {}
    /\ built = 0
    /\ reply = NoReply

\* the rest of create_session once the URL is accepted and the client is
\* built: mount the proxy under the new token and register the session
MountAndRegister(t) ==
    /\ minted' = minted + 1
    /\ mounts' = mounts \cup {t}
    /\ RegisterSession(t, now + SessionTtl)

\* create_session with the URL validated after the client is constructed
PostServerValidateLate(url, t, proxy) ==
    /\ built < MaxCreates
    /\ built' = built + 1
    /\ IF ValidateRemoteUrl(url) # 0
       THEN /\ reply' = [op |-> "create", status |-> 400, token |-> 0,
                         url |-> url, disconnect |-> "none"]
            /\ UNCHANGED <<sessions, order, minted, mounts>>
       ELSE IF proxy = "raises"
       THEN /\ reply' = [op |-> "create", status |-> 500, token |-> 0,
                         url |-> url, disconnect |-> "none"]
            /\ UNCHANGED <<sessions, order, minted, mounts>>
       ELSE /\ MountAndRegister(t)
            /\ reply' = [op |-> "create", status |-> 200, token |-> t,
                         url |-> url, disconnect |-> "none"]
    /\ UNCHANGED <<now, cleanupPc, sweepNow, expired, sweepDoneAt, reached>>
    /\ UNCHANGED registryVars

\* POST /server (create_server_connection -> HubState.create_session) and
\* POST /session of hub-mcp.py: validate_remote_url first; then the
\* transport and the ProxyClient; then FastMCP.as_proxy, which returns or
\* raises; then token, mount, register_session.
PostServer(url, t, proxy) ==
    /\ IF ValidateRemoteUrl(url) # 0
       THEN /\ reply' = [op |-> "create", status |-> 400, token |-> 0,
                         url |-> url, disconnect |-> "none"]
            /\ UNCHANGED <<sessions, order, minted, mounts, built>>
       ELSE /\ built < MaxCreates
            /\ built' = built + 1
            /\ IF proxy = "raises"
               THEN /\ reply' = [op |-> "create", status |-> 500, token |-> 0,
                                 url |-> url, disconnect |-> "none"]
                    /\ UNCHANGED <<sessions, order, minted, mounts>>
               ELSE /\ MountAndRegister(t)
                    /\ reply' = [op |-> "create", status |-> 200, token |-> t,
                                 url |-> url, disconnect |-> "none"]
    /\ UNCHANGED <<now, cleanupPc, sweepNow, expired, sweepDoneAt, reached>>
    /\ UNCHANGED registryVars

\* SessionData.close with the exception of _disconnect let through
SessionCloseUnguarded(disconnect) ==
    IF disconnect = "raises" THEN "raised" ELSE "returned"

\* SessionData.close: `except Exception: pass` around _disconnect(force=True)
SessionClose(disconnect) == "returned"

\* DELETE /server/{id} (close_server_connection) and DELETE /session/{id}
\* of hub-mcp.py: remove_session pops the key, 404 when it was absent;
\* then await session.close(); then the success body.
DeleteServer(t, disconnect) ==
    /\ IF ~InMap(t)
       THEN /\ reply' = [op |-> "close", status |-> 404, token |-> t,
                         url |-> NoUrl, disconnect |-> "none"]
            /\ UNCHANGED <<sessions, order>>
       ELSE /\ sessions' = [sessions EXCEPT ![t] = NoSession]
            /\ order' = RemoveKey(order, t)
            /\ reply' = [op |-> "close",
                         status |-> IF SessionClose(disconnect) = "returned"
                                    THEN 200 ELSE 500,
                         token |-> t, url |-> NoUrl, disconnect |-> disconnect]
    /\ UNCHANGED <<now, cleanupPc, sweepNow, expired, sweepDoneAt, minted, reached>>
    /\ UNCHANGED <<mounts, built>>
    /\ UNCHANGED registryVars

\* validate_remote_url called on its own, as the unit tests call it
CallValidate(url) ==
    /\ reply' = [op |-> "validate", status |-> ValidateRemoteUrl(url),
                 token |-> 0, url |-> url, disconnect |-> "none"]
    /\ UNCHANGED <<mounts, built>>
    /\ UNCHANGED <<hubVars, registryVars>>

UrlNext == \E url \in SampleUrls : CallValidate(url)

\* the URLs the create requests of the model carry: an accepted one, one
\* with a refused scheme, one on the deny-list, one private address
ApiUrls ==
    { [scheme |-> "https", host |-> NameHost("example.com")],
      [scheme |-> "ftp", host |-> NameHost("example.com")],
      [scheme |-> "http", host |-> NameHost("localhost")],
      [scheme |-> "http", host |-> DottedHost(<<192, 168, 0, 1>>)] }

ApiNext ==
    \/ \E url \in ApiUrls, t \in Tokens, proxy \in ProxyOutcomes :
           PostServer(url, t, proxy)
    \/ \E t \in Tokens, disconnect \in DisconnectOutcomes :
           DeleteServer(t, disconnect)

(***************************************************************************)
(* The server stores.  One run of the model works on one store:            *)
(*   "legacy" - registry/database.py: sqlite table servers with            *)
(*              `url TEXT NOT NULL UNIQUE`, synchronous statements;        *)
(*   "orm"    - mcp_registry/database: Server.url unique=True, a           *)
(*              repository that looks the URL up before it writes, with    *)
(*              awaits between the look-up and the commit;                 *)
(*   "lite"   - mcp_registry/db + mcp_registry/repositories: Server.url    *)
(*              without a unique constraint, a repository that writes      *)
(*              what it is given.                                          *)
(***************************************************************************)
StoreKinds == {"legacy", "orm", "lite"}

EmptyTable == [j \in {} |-> 0]

Put(tbl, i, v) == [j \in (DOMAIN tbl) \cup {i} |-> IF j = i THEN v ELSE tbl[j]]

Drop(tbl, i) == [j \in (DOMAIN tbl) \ {i} |-> tbl[j]]

\* SELECT ... WHERE url = ? finds a row
UrlTaken(u) == \E j \in DOMAIN servers : servers[j] = u

\* the UNIQUE index on servers.url rejects giving row i the url u
UniqueViolation(i, u) == \E j \in (DOMAIN servers) \ {i} : servers[j] = u

StoreInit ==
    /\ storeKind = "none"
    /\ servers = EmptyTable
    /\ pending = EmptyTable
    /\ storeResult = "none"

\* the store is constructed (Database(db_path), create_tables)
OpenStore(k) ==
    /\ storeKind = "none"
    /\ storeKind' = k
    /\ UNCHANGED <<servers, pending, storeResult>>
    /\ UNCHANGED notStoreVars

(***************************************************************************)
(* Database.create_server: INSERT INTO servers; the UNIQUE index raises    *)
(* IntegrityError and the transaction is rolled back.                      *)
(***************************************************************************)
LegacyCreateServer(i, u) ==
    /\ storeKind = "legacy"
    /\ i \notin DOMAIN servers
    /\ IF UniqueViolation(i, u)
       THEN storeResult' = "integrity_error" /\ UNCHANGED servers
       ELSE storeResult' = "created" /\ servers' = Put(servers, i, u)
    /\ UNCHANGED <<storeKind, pending>>
    /\ UNCHANGED notStoreVars

(***************************************************************************)
(* Database.update_server with a url in the data: None when the row is     *)
(* absent, else UPDATE servers SET url = ? WHERE id = ?.                   *)
(***************************************************************************)
LegacyUpdateServer(i, u) ==
    /\ storeKind = "legacy"
    /\ IF i \notin DOMAIN servers
       THEN storeResult' = "not_found" /\ UNCHANGED servers
       ELSE IF UniqueViolation(i, u)
       THEN storeResult' = "integrity_error" /\ UNCHANGED servers
       ELSE storeResult' = "updated" /\ servers' = Put(servers, i, u)
    /\ UNCHANGED <<storeKind, pending>>
    /\ UNCHANGED notStoreVars

\* Database.delete_server: DELETE FROM servers WHERE id = ?
LegacyDeleteServer(i) ==
    /\ storeKind = "legacy"
    /\ IF i \in DOMAIN servers
       THEN storeResult' = "deleted" /\ servers' = Drop(servers, i)
       ELSE storeResult' = "not_found" /\ UNCHANGED servers
    /\ UNCHANGED <<storeKind, pending>>
    /\ UNCHANGED notStoreVars

\* the except clauses around the body of register_server:
\* `except ValidationError` gives 422, `except Exception` gives 500; the
\* HTTPException the body raises itself is an Exception
RegisterExcept(raised) ==
    IF raised = "ValidationError" THEN "422" ELSE "500"

(***************************************************************************)
(* POST /api/servers of the legacy API (register_server): inside one try,  *)
(* get_server_by_url and HTTPException(409) when a row has the url, else   *)
(* create_server and the 201 body.                                         *)
(***************************************************************************)
RegisterServer(i, u) ==
    /\ storeKind = "legacy"
    /\ i \notin DOMAIN servers
    /\ IF UrlTaken(u)
       THEN storeResult' = RegisterExcept("HTTPException(409)")
            /\ UNCHANGED servers
       ELSE storeResult' = "201" /\ servers' = Put(servers, i, u)
    /\ UNCHANGED <<storeKind, pending>>
    /\ UNCHANGED notStoreVars

(***************************************************************************)
(* ServerRepository.create up to `await self.session.commit()`:            *)
(* get_by_url, ServerAlreadyExistsError when a row has the url, else the   *)
(* new Server is added to the session.                                     *)
(***************************************************************************)
OrmCreateCheck(i, u) ==
    /\ storeKind = "orm"
    /\ i \notin DOMAIN servers
    /\ i \notin DOMAIN pending
    /\ IF UrlTaken(u)
       THEN storeResult' = "already_exists" /\ UNCHANGED pending
       ELSE storeResult' = "none"
            /\ pending' = Put(pending, i, [op |-> "create", url |-> u])
    /\ UNCHANGED <<storeKind, servers>>
    /\ UNCHANGED notStoreVars

(***************************************************************************)
(* ServerRepository.update up to the commit: get_by_id, then get_by_url    *)
(* when the url changes, ServerAlreadyExistsError when another row has it. *)
(***************************************************************************)
OrmUpdateCheck(i, u) ==
    /\ storeKind = "orm"
    /\ i \notin DOMAIN pending
    /\ IF i \notin DOMAIN servers
       THEN storeResult' = "not_found" /\ UNCHANGED pending
       ELSE IF u # servers[i] /\ UniqueViolation(i, u)
       THEN storeResult' = "already_exists" /\ UNCHANGED pending
       ELSE storeResult' = "none"
            /\ pending' = Put(pending, i, [op |-> "update", url |-> u])
    /\ UNCHANGED <<storeKind, servers>>
    /\ UNCHANGED notStoreVars

(***************************************************************************)
(* `await self.session.commit()` of a suspended create or update: the      *)
(* flush sends the INSERT or UPDATE; the unique index on url raises        *)
(* IntegrityError; an UPDATE that matches no row raises StaleDataError.    *)
(***************************************************************************)
OrmCommit(i) ==
    /\ storeKind = "orm"
    /\ i \in DOMAIN pending
    /\ pending' = Drop(pending, i)
    /\ LET req == pending[i] IN
         IF req.op = "update" /\ i \notin DOMAIN servers
         THEN storeResult' = "stale" /\ UNCHANGED servers
         ELSE IF UniqueViolation(i, req.url)
         THEN storeResult' = "integrity_error" /\ UNCHANGED servers
         ELSE /\ storeResult' = IF req.op = "create" THEN "created" ELSE "updated"
              /\ servers' = Put(servers, i, req.url)
    /\ UNCHANGED storeKind
    /\ UNCHANGED notStoreVars

\* ServerRepository.delete: get_by_id, session.delete, commit
OrmDelete(i) ==
    /\ storeKind = "orm"
    /\ IF i \in DOMAIN servers
       THEN storeResult' = "deleted" /\ servers' = Drop(servers, i)
       ELSE storeResult' = "not_found" /\ UNCHANGED servers
    /\ UNCHANGED <<storeKind, pending>>
    /\ UNCHANGED notStoreVars

(***************************************************************************)
(* The lightweight ServerRepository.create_server (what                    *)
(* RegistryService.create_server calls): a Server with a fresh uuid is     *)
(* added and committed; nothing looks the url up and the table has no      *)
(* unique index on it.                                                     *)
(***************************************************************************)
LiteCreateServer(i, u) ==
    /\ storeKind = "lite"
    /\ i \notin DOMAIN servers
    /\ storeResult' = "created"
    /\ servers' = Put(servers, i, u)
    /\ UNCHANGED <<storeKind, pending>>
    /\ UNCHANGED notStoreVars

\* RegistryService.create_server: returns what its repository returns
ServiceCreateServer(i, u) == LiteCreateServer(i, u)

(***************************************************************************)
(* The lightweight ServerRepository.update_server: None when the row is    *)
(* absent, else setattr(server, "url", value) and commit.  The value is    *)
(* the pydantic url object, which the driver either binds or rejects.      *)
(***************************************************************************)
LiteUpdateServer(i, u) ==
    /\ storeKind = "lite"
    /\ IF i \notin DOMAIN servers
       THEN storeResult' = "not_found" /\ UNCHANGED servers
       ELSE \/ storeResult' = "updated" /\ servers' = Put(servers, i, u)
            \/ storeResult' = "bind_error" /\ UNCHANGED servers
    /\ UNCHANGED <<storeKind, pending>>
    /\ UNCHANGED notStoreVars

\* the lightweight ServerRepository.delete_server
LiteDeleteServer(i) ==
    /\ storeKind = "lite"
    /\ IF i \in DOMAIN servers
       THEN storeResult' = "deleted" /\ servers' = Drop(servers, i)
       ELSE storeResult' = "not_found" /\ UNCHANGED servers
    /\ UNCHANGED <<storeKind, pending>>
    /\ UNCHANGED notStoreVars

StoreNext ==
    \/ \E k \in StoreKinds : OpenStore(k)
    \/ \E i \in Servers, u \in Urls : LegacyCreateServer(i, u)
    \/ \E i \in Servers, u \in Urls : LegacyUpdateServer(i, u)
    \/ \E i \in Servers : LegacyDeleteServer(i)
    \/ \E i \in Servers, u \in Urls : RegisterServer(i, u)
    \/ \E i \in Servers, u \in Urls : OrmCreateCheck(i, u)
    \/ \E i \in Servers, u \in Urls : OrmUpdateCheck(i, u)
    \/ \E i \in Servers : OrmCommit(i)
    \/ \E i \in Servers : OrmDelete(i)
    \/ \E i \in Servers, u \in Urls : LiteCreateServer(i, u)
    \/ \E i \in Servers, u \in Urls : LiteUpdateServer(i, u)
    \/ \E i \in Servers : LiteDeleteServer(i)

(***************************************************************************)
(* Several legacy stores in one process (registry/database.py, api.py).    *)
(* A caller gets a store from Database(db_path), from get_database(db_path)*)
(* or from create_registry_app(db_path), and registers servers through it. *)
(***************************************************************************)
GlobalVias == {"get_database", "create_registry_app"}
OpenVias == {"Database"} \cup GlobalVias

FileInit ==
    /\ files = [p \in Paths |-> {}]
    /\ globalDb = 0
    /\ opened = {}

\* Database(db_path): a new object on the file db_path
NewDatabase(p) ==
    /\ opened' = opened \cup {[via |-> "Database", asked |-> p, file |-> p]}
    /\ UNCHANGED <<files, globalDb>>
    /\ UNCHANGED notFileVars

\* get_database(db_path), also as called by create_registry_app(db_path):
\* `if _database is None: _database = Database(db_path)`; return _database
GetDatabase(via, p) ==
    /\ globalDb' = IF globalDb = 0 THEN p ELSE globalDb
    /\ opened' = opened \cup {[via |-> via, asked |-> p, file |-> globalDb']}
    /\ UNCHANGED files
    /\ UNCHANGED notFileVars

\* create_server (directly or by POST /api/servers) through a handle:
\* INSERT INTO servers in the file behind the handle, refused by the UNIQUE
\* index when that file has the url
HandleCreateServer(h, u) ==
    /\ h \in opened
    /\ files' = IF u \in files[h.file]
                THEN files
                ELSE [files EXCEPT ![h.file] = @ \cup {u}]
    /\ UNCHANGED <<globalDb, opened>>
    /\ UNCHANGED notFileVars

\* delete_server through a handle, by the url of the server
HandleDeleteServer(h, u) ==
    /\ h \in opened
    /\ u \in files[h.file]
    /\ files' = [files EXCEPT ![h.file] = @ \ {u}]
    /\ UNCHANGED <<globalDb, opened>>
    /\ UNCHANGED notFileVars

Handles == [via : OpenVias, asked : Paths, file : Paths]

FileNext ==
    \/ \E p \in Paths : NewDatabase(p)
    \/ \E via \in GlobalVias, p \in Paths : GetDatabase(via, p)
    \/ \E h \in Handles, u \in Urls : HandleCreateServer(h, u)
    \/ \E h \in Handles, u \in Urls : HandleDeleteServer(h, u)

(***************************************************************************)
(* Capability discovery.  One run of the model works with one service:     *)
(*   "legacy"     - registry/capability_discovery.py over the sqlite store *)
(*                  (tables server_capabilities, capability_discoveries);  *)
(*   "enterprise" - mcp_registry/services/discovery.py over the            *)
(*                  lightweight store.                                     *)
(***************************************************************************)
DiscKinds == {"legacy", "enterprise"}

NoResponse == [status |-> "none", server |-> 0, caps |-> {}, time_ms |-> 0]

\* discovery_time_ms = int((time.time() - start_time) * 1000) of a live run
ElapsedMs == {0, 1}

\* `await client.ping()`: it raises, or it answers after ms milliseconds
PingResults ==
    {[answered |-> FALSE, ms |-> 0]}
        \cup {[answered |-> TRUE, ms |-> m] : m \in 0..MaxSample}

\* the discovery columns of a new row of servers (INTEGER DEFAULT 0)
NewRowStats == [total |-> 0, successful |-> 0, avg |-> 0]

\* the average rounded to the nearest integer instead of floored
NewAvgRounded(current_avg, total_discoveries, response_time_ms) ==
    IF total_discoveries > 0
    THEN (2 * ((current_avg * total_discoveries) + response_time_ms)
              + (total_discoveries + 1))
             \div (2 * (total_discoveries + 1))
    ELSE response_time_ms

(***************************************************************************)
(* The average update_server_info writes:                                  *)
(*   new_avg = ((current_avg * total_discoveries) + response_time_ms)      *)
(*                 // (total_discoveries + 1)     if total_discoveries > 0 *)
(*   new_avg = response_time_ms                   otherwise                *)
(***************************************************************************)
NewAvg(current_avg, total_discoveries, response_time_ms) ==
    IF total_discoveries > 0
    THEN ((current_avg * total_discoveries) + response_time_ms)
             \div (total_discoveries + 1)
    ELSE response_time_ms

\* update_server_info(response_time_ms = the ping sample, None without one)
UpdateServerInfo(row, ping) ==
    IF ping.answered
    THEN [row EXCEPT !.avg = NewAvg(row.avg, row.total, ping.ms)]
    ELSE row

\* counters that take every discovery for a successful one
CountDiscoveryAsSuccess(row, success) ==
    [row EXCEPT !.total = @ + 1, !.successful = @ + 1]

\* UPDATE servers SET total_discoveries = total_discoveries + 1
\* [, successful_discoveries = successful_discoveries + 1]
CountDiscovery(row, success) ==
    [row EXCEPT !.total = @ + 1,
                !.successful = IF success THEN @ + 1 ELSE @]

DiscInit ==
    /\ discKind = "none"
    /\ clock = 0
    /\ nextId = 0
    /\ registered = {}
    /\ caps = EmptyTable
    /\ attempts = <<>>
    /\ calls = EmptyTable
    /\ stats = EmptyTable
    /\ response = NoResponse

\* the service is constructed over its store
OpenDisc(k) ==
    /\ discKind = "none"
    /\ discKind' = k
    /\ UNCHANGED <<clock, nextId, registered, caps, attempts, calls, stats, response>>
    /\ UNCHANGED notDiscVars

DiscTick ==
    /\ discKind # "none"
    /\ clock < MaxClock
    /\ clock' = clock + 1
    /\ UNCHANGED <<discKind, nextId, registered, caps, attempts, calls, stats,
                   response>>
    /\ UNCHANGED notDiscVars

\* create_server: a server with a fresh id (uuid4) gets its row
DiscRegister ==
    /\ discKind # "none"
    /\ nextId < NumDiscovered
    /\ nextId' = nextId + 1
    /\ registered' = registered \cup {nextId + 1}
    /\ caps' = Put(caps, nextId + 1, {})
    /\ stats' = Put(stats, nextId + 1, NewRowStats)
    /\ UNCHANGED <<discKind, clock, attempts, calls, response>>
    /\ UNCHANGED notDiscVars

\* rows of capability_discoveries WHERE server_id = s, oldest first
HistoryOf(s) == SelectSeq(attempts, LAMBDA r : r.server = s)

\* DELETE FROM capability_discoveries WHERE server_id = s
WithoutServer(s) == SelectSeq(attempts, LAMBDA r : r.server # s)

\* delete_server with only its last statement, DELETE FROM servers
DiscDeleteServerRowOnly(s) ==
    /\ discKind # "none"
    /\ s \in registered
    /\ registered' = registered \ {s}
    /\ stats' = Drop(stats, s)
    /\ UNCHANGED <<discKind, clock, nextId, calls, response, caps, attempts>>
    /\ UNCHANGED notDiscVars

(***************************************************************************)
(* delete_server: the capability rows, the attempt rows and the server row *)
(* go (explicit DELETEs in the legacy store, cascade="all, delete-orphan"  *)
(* on Server.capabilities and Server.discoveries in the ORM store).        *)
(***************************************************************************)
DiscDeleteServer(s) ==
    /\ discKind # "none"
    /\ s \in registered
    /\ registered' = registered \ {s}
    /\ caps' = Drop(caps, s)
    /\ attempts' = WithoutServer(s)
    /\ stats' = Drop(stats, s)
    /\ UNCHANGED <<discKind, clock, nextId, calls, response>>
    /\ UNCHANGED notDiscVars

(***************************************************************************)
(* _get_recent_successful_discovery: get_discovery_history(limit=1) gives  *)
(* the row with the greatest discovered_at (rows of one clock tick in      *)
(* their insertion order); False when there is none or when its status is  *)
(* not "success"; else age_minutes < max_age_minutes.                      *)
(***************************************************************************)
RecentSuccessfulDiscovery(s) ==
    LET history == HistoryOf(s) IN
      IF history = <<>> THEN FALSE
      ELSE LET latest == history[Len(history)] IN
             IF latest.status # "success" THEN FALSE
             ELSE clock - latest.at < FreshWindow

\* record_discovery_attempt: INSERT INTO capability_discoveries
RecordDiscoveryAttempt(s, status) ==
    Append(attempts, [server |-> s, status |-> status, at |-> clock])

\* a cache hit that is written to the attempt history
CachedAnswerRecorded(s) ==
    /\ response' = [status |-> "cached", server |-> s,
                    caps |-> caps[s], time_ms |-> 0]
    /\ attempts' = RecordDiscoveryAttempt(s, "cached")
    /\ UNCHANGED <<calls, caps, stats>>

(***************************************************************************)
(* The cached branch: get_server_capabilities and get_server are read and  *)
(* a response with status "cached", discovery_time_ms 0 and the stored     *)
(* capabilities is returned; nothing is written.                           *)
(***************************************************************************)
CachedAnswer(s) ==
    /\ response' = [status |-> "cached", server |-> s,
                    caps |-> caps[s], time_ms |-> 0]
    /\ UNCHANGED <<calls, caps, attempts, stats>>

(***************************************************************************)
(* discover_server_capabilities of the legacy service up to its first      *)
(* await (the route has found the server).  Without force_refresh and with *)
(* a recent successful discovery it returns the stored capabilities with   *)
(* status "cached" and discovery_time_ms 0; else it creates the client and *)
(* suspends in `async with client`.                                        *)
(***************************************************************************)
LegacyDiscoverStart(c, s, force) ==
    /\ discKind = "legacy"
    /\ c \notin DOMAIN calls
    /\ s \in registered
    /\ Len(attempts) + Cardinality(DOMAIN calls) < MaxAttempts
    /\ IF ~force /\ RecentSuccessfulDiscovery(s)
       THEN CachedAnswer(s)
       ELSE /\ calls' = Put(calls, c, [server |-> s, force |-> force])
            /\ UNCHANGED <<response, caps, attempts, stats>>
    /\ UNCHANGED <<discKind, clock, nextId, registered>>
    /\ UNCHANGED notDiscVars

\* the success path over tables without the foreign key to servers: the
\* rows of a server that is gone are written all the same
LegacyDiscoverSucceedNoForeignKey(c, found, ms, ping) ==
    /\ discKind = "legacy"
    /\ c \in DOMAIN calls
    /\ LET s == calls[c].server IN
         /\ caps' = Put(caps, s, found)
         /\ stats' = IF s \in registered
                     THEN [stats EXCEPT ![s] =
                              CountDiscovery(UpdateServerInfo(@, ping), TRUE)]
                     ELSE stats
         /\ attempts' = RecordDiscoveryAttempt(s, "success")
         /\ response' = [status |-> "success", server |-> s,
                         caps |-> found, time_ms |-> ms]
    /\ calls' = Drop(calls, c)
    /\ UNCHANGED <<discKind, clock, nextId, registered>>
    /\ UNCHANGED notDiscVars

(***************************************************************************)
(* The live part ends normally with the capabilities `found`:              *)
(* store_capabilities (DELETE the rows of the server, INSERT each          *)
(* capability; the UNIQUE(server_id, type, name) index drops repeats),     *)
(* update_server_info with the ping sample, the counters UPDATE,           *)
(* record_discovery_attempt("success").  When the server row is gone the   *)
(* foreign key rejects every INSERT: nothing is stored, the record call    *)
(* raises, the handler's own record call raises too and the call ends with *)
(* that exception.                                                         *)
(***************************************************************************)
LegacyDiscoverSucceed(c, found, ms, ping) ==
    /\ discKind = "legacy"
    /\ c \in DOMAIN calls
    /\ LET s == calls[c].server IN
         IF s \in registered
         THEN /\ caps' = [caps EXCEPT ![s] = found]
              /\ stats' = [stats EXCEPT ![s] =
                              CountDiscovery(UpdateServerInfo(@, ping), TRUE)]
              /\ attempts' = RecordDiscoveryAttempt(s, "success")
              /\ response' = [status |-> "success", server |-> s,
                              caps |-> found, time_ms |-> ms]
         ELSE /\ response' = [status |-> "raised", server |-> s,
                              caps |-> {}, time_ms |-> 0]
              /\ UNCHANGED <<caps, attempts, stats>>
    /\ calls' = Drop(calls, c)
    /\ UNCHANGED <<discKind, clock, nextId, registered>>
    /\ UNCHANGED notDiscVars

(***************************************************************************)
(* The live part raises (asyncio.TimeoutError or any other exception):     *)
(* record_discovery_attempt("failed") and a response with status "failed"; *)
(* the stored capabilities stay.  When the server row is gone the record   *)
(* call raises out of the handler.                                         *)
(***************************************************************************)
LegacyDiscoverFail(c, ms) ==
    /\ discKind = "legacy"
    /\ c \in DOMAIN calls
    /\ LET s == calls[c].server IN
         IF s \in registered
         THEN /\ attempts' = RecordDiscoveryAttempt(s, "failed")
              /\ stats' = [stats EXCEPT ![s] = CountDiscovery(@, FALSE)]
              /\ response' = [status |-> "failed", server |-> s,
                              caps |-> {}, time_ms |-> ms]
         ELSE /\ response' = [status |-> "raised", server |-> s,
                              caps |-> {}, time_ms |-> 0]
              /\ UNCHANGED <<attempts, stats>>
    /\ calls' = Drop(calls, c)
    /\ UNCHANGED <<discKind, clock, nextId, registered, caps>>
    /\ UNCHANGED notDiscVars

(***************************************************************************)
(* DiscoveryService.discover_server_capabilities of the enterprise         *)
(* service up to `await self._connect_and_discover(server)`: get_server,   *)
(* ServerNotFoundError when there is no row.  There is no force flag and   *)
(* no look at earlier attempts.                                            *)
(***************************************************************************)
EntDiscoverStart(c, s) ==
    /\ discKind = "enterprise"
    /\ c \notin DOMAIN calls
    /\ s \in 1..nextId
    /\ IF s \in registered
       THEN /\ calls' = Put(calls, c, [server |-> s, force |-> FALSE])
            /\ UNCHANGED response
       ELSE /\ response' = [status |-> "raised", server |-> s,
                            caps |-> {}, time_ms |-> 0]
            /\ UNCHANGED calls
    /\ UNCHANGED <<discKind, clock, nextId, registered, caps, attempts, stats>>
    /\ UNCHANGED notDiscVars

(***************************************************************************)
(* _connect_and_discover returns `found`; _store_capabilities sets         *)
(* capability["server_id"] on each dict and commits a session that has     *)
(* nothing in it; the list is returned.  No attempt is recorded.           *)
(***************************************************************************)
EntDiscoverSucceed(c, found) ==
    /\ discKind = "enterprise"
    /\ c \in DOMAIN calls
    /\ response' = [status |-> "success", server |-> calls[c].server,
                    caps |-> found, time_ms |-> 0]
    /\ calls' = Drop(calls, c)
    /\ UNCHANGED <<discKind, clock, nextId, registered, caps, attempts, stats>>
    /\ UNCHANGED notDiscVars

(***************************************************************************)
(* _connect_and_discover raises: `except Exception` prints and returns []. *)
(***************************************************************************)
EntDiscoverFail(c) ==
    /\ discKind = "enterprise"
    /\ c \in DOMAIN calls
    /\ response' = [status |-> "empty_list", server |-> calls[c].server,
                    caps |-> {}, time_ms |-> 0]
    /\ calls' = Drop(calls, c)
    /\ UNCHANGED <<discKind, clock, nextId, registered, caps, attempts, stats>>
    /\ UNCHANGED notDiscVars

(***************************************************************************)
(* update_server_info on its own: a servers row as earlier discoveries can *)
(* have left it, then one call with a latency sample.                      *)
(***************************************************************************)
AvgSamples == (0..5) \cup {100}
CountSamples == {0, 1, 2, 3, 9}
LatencySamples == (0..3) \cup {200}

\* a registered server after n discoveries with the average a (the average
\* is only written by a discovery, which is counted)
LoadRow(a, n) ==
    /\ discKind = "none"
    /\ n = 0 => a = 0
    /\ discKind' = "legacy"
    /\ nextId' = 1
    /\ registered' = {1}
    /\ caps' = Put(caps, 1, {})
    /\ stats' = Put(stats, 1, [total |-> n,
                               successful |-> IF a > 0 THEN n ELSE 0,
                               avg |-> a])
    /\ UNCHANGED <<clock, attempts, calls, response>>
    /\ UNCHANGED notDiscVars

\* Database.update_server_info(server_id, response_time_ms = s)
ProbeRow(s) ==
    /\ 1 \in registered
    /\ response.status = "none"
    /\ stats' = [stats EXCEPT
                    ![1] = UpdateServerInfo(@, [answered |-> TRUE, ms |-> s])]
    /\ response' = [status |-> "probed", server |-> 1, caps |-> {},
                    time_ms |-> s]
    /\ UNCHANGED <<discKind, clock, nextId, registered, caps, attempts, calls>>
    /\ UNCHANGED notDiscVars

AvgNext ==
    \/ \E a \in AvgSamples, n \in CountSamples : LoadRow(a, n)
    \/ \E s \in LatencySamples : ProbeRow(s)

(***************************************************************************)
(* A live discovery run whose connection succeeds, by capability class.    *)
(* The server exposes the capabilities `exposed`; the listings of the      *)
(* classes in `failed` raise, each inside its own try/except, and leave    *)
(* nothing of their class in the collected list.                           *)
(***************************************************************************)
CapClasses == {"tools", "resources", "resource_templates", "prompts"}
ClassOf(n) ==
    CASE n = 1 -> "tools"
      [] n = 2 -> "resources"
      [] n = 3 -> "resource_templates"
      [] OTHER -> "prompts"
FailedSets == {{}, {"tools"}, {"resources"}, {"tools", "resources"}, CapClasses}

Enumerated(exposed, failed) == {n \in exposed : ClassOf(n) \notin failed}

\* discover_server_capabilities of the legacy service after the listings
LegacyPartialRun(c, exposed, failed, ms, ping) ==
    LegacyDiscoverSucceed(c, Enumerated(exposed, failed), ms, ping)

\* _discover_with_fastmcp, then the rest of discover_server_capabilities
EntPartialRun(c, exposed, failed) ==
    EntDiscoverSucceed(c, Enumerated(exposed, failed))

PartialNext ==
    \/ \E k \in DiscKinds : OpenDisc(k)
    \/ DiscRegister
    \/ \E c \in Calls, s \in DiscServers, force \in BOOLEAN :
           LegacyDiscoverStart(c, s, force)
    \/ \E c \in Calls, exposed \in SUBSET CapNames, failed \in FailedSets,
          ms \in ElapsedMs, ping \in PingResults :
           LegacyPartialRun(c, exposed, failed, ms, ping)
    \/ \E c \in Calls, s \in DiscServers : EntDiscoverStart(c, s)
    \/ \E c \in Calls, exposed \in SUBSET CapNames, failed \in FailedSets :
           EntPartialRun(c, exposed, failed)

(***************************************************************************)
(* A live run of the legacy service whose listings give the list `listed`  *)
(* (a capability n stands for one (type, name) pair; a pair can be listed  *)
(* more than once).  store_capabilities deletes the rows of the server and *)
(* inserts the items one by one; an INSERT the UNIQUE(server_id, type,     *)
(* name) constraint rejects is caught and not counted.                     *)
(***************************************************************************)
ListedRuns == {<<>>} \cup {<<a>> : a \in CapNames}
                  \cup {<<a, b>> : a \in CapNames, b \in CapNames}

RECURSIVE InsertEach(_, _)
InsertEach(capabilities, done) ==
    IF capabilities = <<>> THEN done
    ELSE InsertEach(Tail(capabilities),
                    IF Head(capabilities) \in done.rows
                    THEN done
                    ELSE [rows |-> done.rows \cup {Head(capabilities)},
                          stored_count |-> done.stored_count + 1])

StoreCapabilities(capabilities) ==
    InsertEach(capabilities, [rows |-> {}, stored_count |-> 0])

\* the success path of discover_server_capabilities for a server whose row
\* exists: store_capabilities, update_server_info, the counters,
\* record_discovery_attempt(capabilities_found = stored_count) and the
\* response with capabilities_found = stored_count and the list as listed
LegacyListedRun(c, listed, ms, ping) ==
    /\ discKind = "legacy"
    /\ c \in DOMAIN calls
    /\ calls[c].server \in registered
    /\ LET s == calls[c].server
           stored == StoreCapabilities(listed)
       IN  /\ caps' = [caps EXCEPT ![s] = stored.rows]
           /\ stats' = [stats EXCEPT ![s] =
                           CountDiscovery(UpdateServerInfo(@, ping), TRUE)]
           /\ attempts' = Append(attempts,
                                 [server |-> s, status |-> "success", at |-> clock,
                                  capabilities_found |-> stored.stored_count])
           /\ response' = [status |-> "success", server |-> s,
                           caps |-> stored.rows, time_ms |-> ms,
                           capabilities_found |-> stored.stored_count,
                           capabilities |-> listed]
    /\ calls' = Drop(calls, c)
    /\ UNCHANGED <<discKind, clock, nextId, registered>>
    /\ UNCHANGED notDiscVars

ListedNext ==
    \/ OpenDisc("legacy")
    \/ DiscRegister
    \/ \E s \in DiscServers : LegacyDiscoverStart(1, s, TRUE)
    \/ \E listed \in ListedRuns, ms \in ElapsedMs, ping \in PingResults :
           LegacyListedRun(1, listed, ms, ping)

(***************************************************************************)
(* discover_server_capabilities with the locals it takes at its start:     *)
(* start_time = time.time() and timeout = timeout_seconds or               *)
(* self.discovery_timeout.  The value timeout is used in one place, the    *)
(* text of error_msg in the `except asyncio.TimeoutError` branch; nothing  *)
(* (no asyncio.wait_for, no argument of Client) makes the live part end.   *)
(***************************************************************************)
TimeoutArgs == {0, 1}    \* timeout_seconds: 0 stands for None

EffectiveTimeout(timeout_seconds) ==
    IF timeout_seconds # 0 THEN timeout_seconds ELSE DiscoveryTimeout

LegacyDiscoverBegin(c, s, force, timeout_seconds) ==
    /\ discKind = "legacy"
    /\ c \notin DOMAIN calls
    /\ s \in registered
    /\ Len(attempts) + Cardinality(DOMAIN calls) < MaxAttempts
    /\ IF ~force /\ RecentSuccessfulDiscovery(s)
       THEN CachedAnswer(s)
       ELSE /\ calls' = Put(calls, c,
                            [server |-> s, force |-> force,
                             start_time |-> clock,
                             timeout |-> EffectiveTimeout(timeout_seconds)])
            /\ UNCHANGED <<response, caps, attempts, stats>>
    /\ UNCHANGED <<discKind, clock, nextId, registered>>
    /\ UNCHANGED notDiscVars

\* one call at a time is enough for the timeout
TimeoutNext ==
    \/ OpenDisc("legacy")
    \/ DiscTick
    \/ DiscRegister
    \/ \E s \in DiscServers, force \in BOOLEAN, timeout_seconds \in TimeoutArgs :
           LegacyDiscoverBegin(1, s, force, timeout_seconds)
    \/ \E found \in SUBSET CapNames, ms \in ElapsedMs, ping \in PingResults :
           LegacyDiscoverSucceed(1, found, ms, ping)
    \/ \E ms \in ElapsedMs : LegacyDiscoverFail(1, ms)

DiscNext ==
    \/ \E k \in DiscKinds : OpenDisc(k)
    \/ DiscTick
    \/ DiscRegister
    \/ \E s \in DiscServers : DiscDeleteServer(s)
    \/ \E c \in Calls, s \in DiscServers, force \in BOOLEAN : LegacyDiscoverStart(c, s, force)
    \/ \E c \in Calls, found \in SUBSET CapNames, ms \in ElapsedMs,
          ping \in PingResults : LegacyDiscoverSucceed(c, found, ms, ping)
    \/ \E c \in Calls, ms \in ElapsedMs : LegacyDiscoverFail(c, ms)
    \/ \E c \in Calls, s \in DiscServers : EntDiscoverStart(c, s)
    \/ \E c \in Calls, found \in SUBSET CapNames : EntDiscoverSucceed(c, found)
    \/ \E c \in Calls : EntDiscoverFail(c)

(***************************************************************************)
(* The client connection of a discovery run, step by step.                 *)
(*   "legacy"     - capability_discovery.py: `async with client:` around   *)
(*                  the info capture and the four listings, each listing   *)
(*                  in its own try/except;                                 *)
(*   "enterprise" - _discover_with_fastmcp: MCPClient(url), `await         *)
(*                  client.initialize(...)`, three listings each in its    *)
(*                  own try/except, `await client.close()`, all inside one *)
(*                  try whose handler re-raises.                           *)
(***************************************************************************)
ListedClasses(k) ==
    IF k = "legacy"
    THEN <<"tools", "resources", "resource_templates", "prompts">>
    ELSE <<"tools", "resources", "prompts">>

\* the position after the listing at position pc
AfterListing(k, pc) ==
    LET seq == ListedClasses(k)
        i == CHOOSE j \in 1..Len(seq) : seq[j] = pc
    IN  IF i < Len(seq) THEN seq[i + 1] ELSE "close"

\* connecting: it succeeds, it fails before a connection exists, or the
\* connection is made and the initialize handshake fails
ConnectOutcomes == {"ok", "refused", "handshake_error"}

ConnInit ==
    /\ runKind = "none"
    /\ runPc = [s \in DiscServers |-> "idle"]
    /\ conn = [s \in DiscServers |-> "none"]

\* a discovery run of server s begins (the client object is built)
RunStart(k, s) ==
    /\ runKind \in {"none", k}
    /\ runPc[s] = "idle"
    /\ runKind' = k
    /\ runPc' = [runPc EXCEPT ![s] = "connect"]
    /\ UNCHANGED conn
    /\ UNCHANGED notConnVars

\* legacy: `async with client:` is entered; when the entry fails the
\* context manager leaves no connection behind and the exception goes to
\* the handlers of discover_server_capabilities
LegacyEnter(s, outcome) ==
    /\ runKind = "legacy"
    /\ runPc[s] = "connect"
    /\ IF outcome = "ok"
       THEN /\ conn' = [conn EXCEPT ![s] = "open"]
            /\ runPc' = [runPc EXCEPT ![s] = "tools"]
       ELSE /\ conn' = [conn EXCEPT ![s] = IF outcome = "refused"
                                            THEN "none" ELSE "closed"]
            /\ runPc' = [runPc EXCEPT ![s] = "raised"]
    /\ UNCHANGED runKind
    /\ UNCHANGED notConnVars

\* enterprise: `await client.initialize(...)`; when it raises, the outer
\* `except Exception` re-raises and client.close() is not reached
EntInitialize(s, outcome) ==
    /\ runKind = "enterprise"
    /\ runPc[s] = "connect"
    /\ conn' = [conn EXCEPT ![s] = IF outcome = "refused" THEN "none" ELSE "open"]
    /\ runPc' = [runPc EXCEPT ![s] = IF outcome = "ok" THEN "tools" ELSE "raised"]
    /\ UNCHANGED runKind
    /\ UNCHANGED notConnVars

\* one listing (list_tools, list_resources, ...): it returns or it raises
\* into its own `except Exception`, and the run goes on with the next
ListClass(s, raises) ==
    /\ runKind # "none"
    /\ runPc[s] \in {"tools", "resources", "resource_templates", "prompts"}
    /\ runPc' = [runPc EXCEPT ![s] = AfterListing(runKind, @)]
    /\ UNCHANGED <<runKind, conn>>
    /\ UNCHANGED notConnVars

\* the end of the `async with` block, or `await client.close()`
CloseConnection(s) ==
    /\ runPc[s] = "close"
    /\ conn' = [conn EXCEPT ![s] = "closed"]
    /\ runPc' = [runPc EXCEPT ![s] = "done"]
    /\ UNCHANGED runKind
    /\ UNCHANGED notConnVars

ConnNext ==
    \/ \E k \in DiscKinds, s \in DiscServers : RunStart(k, s)
    \/ \E s \in DiscServers, outcome \in ConnectOutcomes : LegacyEnter(s, outcome)
    \/ \E s \in DiscServers, outcome \in ConnectOutcomes : EntInitialize(s, outcome)
    \/ \E s \in DiscServers, raises \in BOOLEAN : ListClass(s, raises)
    \/ \E s \in DiscServers : CloseConnection(s)

(***************************************************************************)
(* The enterprise ProxyService (services/proxy.py).  A call gives back a   *)
(* record: kind "envelope" (a JSON-RPC dict with has_result and the error  *)
(* code, 0 for no error member) or kind "raised" (an exception reaches the *)
(* caller).                                                                *)
(***************************************************************************)
ProxyOps == {"proxy_request", "call_tool", "get_resource", "get_prompt",
             "initialize_server"}

InternalError == 0 - 32603
MethodNotFound == 0 - 32601

\* what the remote server does with one call
RemoteOutcomes == {"result",         \* answers with a JSON-RPC result
                   "rpc_error",      \* answers with its own JSON-RPC error
                   "not_json",       \* answers 200 with a body that is no JSON
                   "http_status",    \* answers with a 4xx/5xx status
                   "request_error"}  \* cannot be reached / times out

Envelope(has_result, code) ==
    [kind |-> "envelope", has_result |-> has_result, code |-> code, registered |-> TRUE]
Raised(found) ==
    [kind |-> "raised", has_result |-> FALSE, code |-> 0, registered |-> found]
NotCalled ==
    [kind |-> "none", has_result |-> FALSE, code |-> 0, registered |-> FALSE]

\* proxy_request after the server was found: post, raise_for_status,
\* response.json(); only httpx.RequestError and httpx.HTTPStatusError are
\* handled
ProxyRequest(remote) ==
    CASE remote = "request_error" -> Envelope(FALSE, InternalError)
      [] remote = "http_status"   -> Envelope(FALSE, InternalError)
      [] remote = "not_json"      -> Raised(TRUE)
      [] remote = "rpc_error"     -> Envelope(FALSE, MethodNotFound)
      [] OTHER                    -> Envelope(TRUE, 0)

\* _call_tool_fastmcp / _get_resource_fastmcp: the first statement of the try
\* is `MCPClient(...)`, a name the module never binds (it imports Client),
\* so NameError goes to `except Exception` whatever the remote would do
FastmcpCall(remote) == Envelope(FALSE, InternalError)

ProxyResult(op, fastmcp, found, remote) ==
    IF ~found THEN Raised(FALSE)
    ELSE IF fastmcp /\ op \in {"call_tool", "get_resource"}
         THEN FastmcpCall(remote)
         ELSE ProxyRequest(remote)

ProxyInit ==
    proxySvc = [fastmcp |-> "unset", results |-> [op \in ProxyOps |-> NotCalled]]

\* the module is imported: FASTMCP_AVAILABLE is fixed for the process
ProxyLoad(available) ==
    /\ proxySvc.fastmcp = "unset"
    /\ proxySvc' = [proxySvc EXCEPT !.fastmcp = IF available THEN "yes" ELSE "no"]
    /\ UNCHANGED notProxyVars

ProxyCall(op, found, remote) ==
    /\ proxySvc.fastmcp # "unset"
    /\ proxySvc' = [proxySvc EXCEPT !.results[op] =
                        ProxyResult(op, proxySvc.fastmcp = "yes", found, remote)]
    /\ UNCHANGED notProxyVars

ProxyNext ==
    \/ \E available \in BOOLEAN : ProxyLoad(available)
    \/ \E op \in ProxyOps, found \in BOOLEAN, remote \in RemoteOutcomes :
           ProxyCall(op, found, remote)

(***************************************************************************)
(* The standalone proxy process (mcp_proxy_server.py): main() validates    *)
(* the command line and runs run_proxy_server, which starts the registry   *)
(* API thread when asked, settles the URL, probes the remote server in     *)
(* create_proxy_server, constructs the FastMCPProxy and serves it.         *)
(* exit_code is -1 while the process runs.                                 *)
(***************************************************************************)
Transports == {"stdio", "http", "sse"}

CommandLines ==
    [mcp_url : BOOLEAN, server_id : BOOLEAN, enable_registry : BOOLEAN,
     transport : Transports, port : BOOLEAN]

\* the probe: the test client connects and its initialize result is read
ProbeResults == {"ok",               \* connected, serverInfo read
                 "connect_error",    \* `async with test_client` raises
                 "no_init_result"}   \* initialize_result is None: AttributeError
LookupResults == {"found", "missing"}

Exited(st, code) == [st EXCEPT !.pc = "exited", !.exit_code = code]

\* sys.argv before it is parsed: no argument given
NoArguments ==
    [mcp_url |-> FALSE, server_id |-> FALSE, enable_registry |-> FALSE,
     transport |-> "stdio", port |-> FALSE]

StandaloneInit ==
    standalone = [pc |-> "start", args |-> NoArguments, api |-> FALSE, probe |-> "none",
                  constructed |-> FALSE, serving |-> FALSE, exit_code |-> 0 - 1]

\* main(): parse and validate the arguments, then asyncio.run(...)
Main(args) ==
    /\ standalone.pc = "start"
    /\ LET st == [standalone EXCEPT !.args = args]
       IN  standalone' =
               IF \/ args.transport \in {"http", "sse"} /\ ~args.port
                                                         /\ ~args.enable_registry
                  \/ ~args.mcp_url /\ ~args.server_id /\ ~args.enable_registry
               THEN Exited(st, 1)
               ELSE [st EXCEPT !.pc = "settle"]
    /\ UNCHANGED notStandaloneVars

\* run_proxy_server up to the call of create_proxy_server
SettleUrl(lookup) ==
    /\ standalone.pc = "settle"
    /\ LET a == standalone.args
           st == [standalone EXCEPT !.api = a.enable_registry]
       IN  standalone' =
               IF a.server_id
               THEN IF lookup = "found" THEN [st EXCEPT !.pc = "probe"]
                                        ELSE Exited(st, 1)
               ELSE IF ~a.mcp_url
                    THEN [st EXCEPT !.pc = "api_only"]   \* enable_registry holds
                    ELSE [st EXCEPT !.pc = "probe"]
    /\ UNCHANGED notStandaloneVars

\* create_proxy_server with a handler that logs the failure and goes on
CreateProxyServerGoOn(result) ==
    /\ standalone.pc = "probe"
    /\ standalone' = [standalone EXCEPT !.probe = result, !.constructed = TRUE,
                                        !.pc = "serve"]
    /\ UNCHANGED notStandaloneVars

\* create_proxy_server: the probe, then the FastMCPProxy; a failed probe is
\* logged and re-raised, run_proxy_server lets it through, main() catches
\* Exception and calls sys.exit(1)
CreateProxyServer(result) ==
    /\ standalone.pc = "probe"
    /\ standalone' =
           IF result = "ok"
           THEN [standalone EXCEPT !.probe = result, !.constructed = TRUE,
                                   !.pc = "serve"]
           ELSE Exited([standalone EXCEPT !.probe = result], 1)
    /\ UNCHANGED notStandaloneVars

\* proxy_server.run_async(transport=...)
Serve ==
    /\ standalone.pc = "serve"
    /\ standalone' = [standalone EXCEPT !.serving = TRUE, !.pc = "serving"]
    /\ UNCHANGED notStandaloneVars

\* Ctrl-C while serving or in the API-only loop: main() logs and returns
Interrupt ==
    /\ standalone.pc \in {"serving", "api_only"}
    /\ standalone' = Exited([standalone EXCEPT !.serving = FALSE], 0)
    /\ UNCHANGED notStandaloneVars

StandaloneNext ==
    \/ \E args \in CommandLines : Main(args)
    \/ \E lookup \in LookupResults : SettleUrl(lookup)
    \/ \E result \in ProbeResults : CreateProxyServer(result)
    \/ Serve
    \/ Interrupt

(***************************************************************************)
(* The bulk scan.  One run of the model is one scan over all Servers:      *)
(*   "legacy"     - discover_multiple_servers(server_configs, k): one task *)
(*                  per server under asyncio.Semaphore(k), gathered with   *)
(*                  return_exceptions=True;                                *)
(*   "enterprise" - scan_all_servers: a for loop that awaits one discovery *)
(*                  after the other.                                       *)
(* How the discovery of a server goes is the environment's choice:         *)
(*   "ok"     - the live run succeeds;                                     *)
(*   "cached" - the freshness cache answers (legacy only);                 *)
(*   "fails"  - connecting or listing fails;                               *)
(*   "raises" - the discovery call itself raises (its server row is gone). *)
(***************************************************************************)
ScanKinds == {"legacy", "enterprise"}

LegacyOutcomes == {"ok", "cached", "fails", "raises"}

EntOutcomes == {"ok", "fails", "raises"}

ScanInit ==
    /\ scanKind = "none"
    /\ scanK = 0
    /\ permits = 0
    /\ taskPc = EmptyTable
    /\ taskResult = EmptyTable
    /\ truth = EmptyTable
    /\ responses = <<>>
    /\ scanPc = "idle"

(***************************************************************************)
(* discover_multiple_servers up to `await asyncio.gather(...)`: the        *)
(* semaphore is made with k permits and one task per server is created.    *)
(***************************************************************************)
LegacyScanStart(k) ==
    /\ scanPc = "idle"
    /\ scanKind' = "legacy"
    /\ scanK' = k
    /\ permits' = k
    /\ taskPc' = [s \in Servers |-> "waiting"]
    /\ taskResult' = [s \in Servers |-> "none"]
    /\ truth' = [s \in Servers |-> "none"]
    /\ scanPc' = "scanning"
    /\ UNCHANGED responses
    /\ UNCHANGED notScanVars

\* a semaphore that lets every task in
CanAcquireAlways(p) == TRUE

\* asyncio.Semaphore.acquire returns without waiting when the value is > 0
CanAcquire(p) == p > 0

\* `async with semaphore:` is entered and discover_server_capabilities starts
TaskAcquire(s) ==
    /\ scanKind = "legacy"
    /\ taskPc[s] = "waiting"
    /\ CanAcquire(permits)
    /\ permits' = permits - 1
    /\ taskPc' = [taskPc EXCEPT ![s] = "running"]
    /\ UNCHANGED <<scanKind, scanK, taskResult, truth, responses, scanPc>>
    /\ UNCHANGED notScanVars

\* what discover_server_capabilities of the legacy service hands to gather
LegacyTaskResult(o) ==
    CASE o = "ok"     -> "success"
      [] o = "cached" -> "cached"
      [] o = "fails"  -> "failed"
      [] o = "raises" -> "exception"

\* the discovery of s returns or raises; `async with` releases the permit
TaskFinish(s, o) ==
    /\ scanKind = "legacy"
    /\ taskPc[s] = "running"
    /\ permits' = permits + 1
    /\ taskPc' = [taskPc EXCEPT ![s] = "done"]
    /\ taskResult' = [taskResult EXCEPT ![s] = LegacyTaskResult(o)]
    /\ truth' = [truth EXCEPT ![s] = o]
    /\ UNCHANGED <<scanKind, scanK, responses, scanPc>>
    /\ UNCHANGED notScanVars

\* one entry of the loop `for i, result in enumerate(results)`
CollectedStatus(r) == IF r = "exception" THEN "failed" ELSE r

RECURSIVE Collected(_)
Collected(n) ==
    IF n = 0 THEN <<>>
    ELSE Append(Collected(n - 1),
                [server |-> n, status |-> CollectedStatus(taskResult[n])])

\* gather returns when every task is done; exceptions become failed responses
LegacyScanCollect ==
    /\ scanKind = "legacy"
    /\ scanPc = "scanning"
    /\ \A s \in Servers : taskPc[s] = "done"
    /\ responses' = Collected(NumServers)
    /\ scanPc' = "done"
    /\ UNCHANGED <<scanKind, scanK, permits, taskPc, taskResult, truth>>
    /\ UNCHANGED notScanVars

\* scan_all_servers up to its loop: list_servers
EntScanStart ==
    /\ scanPc = "idle"
    /\ scanKind' = "enterprise"
    /\ scanK' = 1
    /\ taskPc' = [s \in Servers |-> "idle"]
    /\ taskResult' = [s \in Servers |-> "none"]
    /\ truth' = [s \in Servers |-> "none"]
    /\ scanPc' = "scanning"
    /\ UNCHANGED <<permits, responses>>
    /\ UNCHANGED notScanVars

\* the loop reaches `await self.discover_server_capabilities(server["id"])`
EntScanBegin(s) ==
    /\ scanKind = "enterprise"
    /\ scanPc = "scanning"
    /\ s = Len(responses) + 1
    /\ taskPc[s] = "idle"
    /\ taskPc' = [taskPc EXCEPT ![s] = "running"]
    /\ UNCHANGED <<scanKind, scanK, permits, taskResult, truth, responses, scanPc>>
    /\ UNCHANGED notScanVars

(***************************************************************************)
(* What the loop body appends: discover_server_capabilities returns a list *)
(* when the run succeeds and also, the empty one, when connecting fails    *)
(* (its `except Exception` returns []): status "success".  Only a raising  *)
(* call (ServerNotFoundError) gives status "failed".                       *)
(***************************************************************************)
EntTaskResult(o) ==
    CASE o = "ok"     -> "success"
      [] o = "fails"  -> "success"
      [] o = "raises" -> "failed"

EntScanEnd(s, o) ==
    /\ scanKind = "enterprise"
    /\ taskPc[s] = "running"
    /\ taskPc' = [taskPc EXCEPT ![s] = "done"]
    /\ taskResult' = [taskResult EXCEPT ![s] = EntTaskResult(o)]
    /\ truth' = [truth EXCEPT ![s] = o]
    /\ responses' = Append(responses, [server |-> s, status |-> EntTaskResult(o)])
    /\ scanPc' = IF s = NumServers THEN "done" ELSE "scanning"
    /\ UNCHANGED <<scanKind, scanK, permits>>
    /\ UNCHANGED notScanVars

ScanNext ==
    \/ \E k \in 1..MaxConcurrent : LegacyScanStart(k)
    \/ \E s \in Servers : TaskAcquire(s)
    \/ \E s \in Servers, o \in LegacyOutcomes : TaskFinish(s, o)
    \/ LegacyScanCollect
    \/ EntScanStart
    \/ \E s \in Servers : EntScanBegin(s)
    \/ \E s \in Servers, o \in EntOutcomes : EntScanEnd(s, o)


Init ==
    HubInit /\ RequestInit /\ StoreInit /\ DiscInit /\ ScanInit /\ FileInit
        /\ ConnInit /\ ProxyInit /\ StandaloneInit

SpecHub == Init /\ [][HubNext]_vars
SpecApi == Init /\ [][ApiNext]_vars
SpecUrl == Init /\ [][UrlNext]_vars

SpecStore == Init /\ [][StoreNext]_vars
SpecFiles == Init /\ [][FileNext]_vars

SpecDisc == Init /\ [][DiscNext]_vars

SpecScan == Init /\ [][ScanNext]_vars
SpecAvg == Init /\ [][AvgNext]_vars
SpecPartial == Init /\ [][PartialNext]_vars
SpecTimeout == Init /\ [][TimeoutNext]_vars
SpecListed == Init /\ [][ListedNext]_vars
SpecConn == Init /\ [][ConnNext]_vars
SpecProxy == Init /\ [][ProxyNext]_vars
SpecStandalone == Init /\ [][StandaloneNext]_vars

(***************************************************************************)
(* Claims about the session hub (checked under SpecHub).                   *)
(***************************************************************************)
\* a step in which a running sweep returns or raises
SweepEnds ==
    \/ cleanupPc = "closing" /\ cleanupPc' # "closing"
    \/ cleanupPc = "sleep" /\ cleanupPc' = "sleep" /\ sweepDoneAt' # sweepDoneAt

\* the clock reading the sweep of this step works with
SweepTime == IF cleanupPc = "closing" THEN sweepNow ELSE now

\* a step in which the sweep pops session t
SweepPops(t) ==
    /\ InMap(t)
    /\ sessions'[t] = NoSession
    /\ (cleanupPc' # cleanupPc \/ expired' # expired)

\* C1: when a sweep that read the clock at or after creation + TTL has run,
\* a session that was never refreshed and never closed is no longer in the
\* session map.
C1_ExpiredGoneAfterSweep ==
    [][SweepEnds =>
         \A t \in Tokens :
            (sessions'[t] # NoSession /\ sessions'[t].refresh = "never")
                => sessions'[t].expires_at > SweepTime]_vars

\* C2: under every interleaving of a sweep with create, close and refresh
\* requests the sweep does not raise and the cleanup task keeps looping.
C2_SweepNeverRaises == cleanupPc # "dead"

\* C3 (as stated): a session a hub operation reaches has its expires_at
\* strictly in the future.
C3_ReachedNotExpired == reached.hit => reached.future

\* C3 (amended): a session a hub operation reaches is in the map and its
\* expires_at is strictly later than the clock reading of the last sweep
\* that ran to completion; the same holds of every session in the map.
C3_ReachedAfterLastSweep ==
    /\ reached.hit => reached.afterSweep
    /\ \A t \in Tokens : InMap(t) => sessions[t].expires_at > sweepDoneAt

\* C3 witness: after a completed sweep a handler reached a session whose
\* expiry had already passed.
C3_Witness ==
    /\ reached.hit
    /\ ~reached.future
    /\ reached.afterSweep
    /\ sweepDoneAt >= 0

\* C4: a refresh at r before expiry sets expires_at to r + TTL, and no sweep
\* that reads the clock before r + TTL removes the session.
C4_RefreshedOutlivesSweep ==
    [][\A t \in Tokens :
          /\ (InMap(t) /\ sessions'[t] # sessions[t]
                /\ sessions'[t].refresh \in {"before_expiry", "after_expiry"})
                => sessions'[t].expires_at = now + SessionTtl
          /\ (SweepPops(t) /\ sessions[t].refresh = "before_expiry")
                => sweepNow' >= sessions[t].expires_at]_vars

\* C25: a created session gets a token that no session in the map has, so
\* creating a session leaves every existing entry of the map as it was.
C25_CreatedTokenIsNew ==
    [][\A t \in Tokens :
          CreateSession(t) =>
              /\ ~InMap(t)
              /\ \A u \in Tokens : InMap(u) => sessions'[u] = sessions[u]]_vars

\* C26: the shared hub endpoint hosts only the proxies of the sessions that
\* are in the map.
C26_MountedOnlyWhileInMap == \A t \in mounts : InMap(t)

\* C29: a session that was refreshed stays in the map until its expiry: no
\* sweep pops it while the clock is before its expires_at, also when the
\* refresh came while the sweep was suspended in another session's close.
C29_RefreshedNotPoppedEarly ==
    [][\A t \in Tokens :
          (SweepPops(t) /\ sessions[t].refresh # "never")
              => now >= sessions[t].expires_at]_vars

(***************************************************************************)
(* Claims about the server stores (checked under SpecStore).               *)
(***************************************************************************)
\* C5: within a store, after any interleaving of create, update and delete
\* operations, no two registered servers have the same URL.
C5_UrlUniqueInStore ==
    \A i, j \in DOMAIN servers : i # j => servers[i] # servers[j]

\* C15: in the legacy REST API, registering a server whose URL is already
\* registered in the store is answered with 409 Conflict and adds no
\* server.
C15_DuplicateRegisterGives409 ==
    [][\A i \in Servers, u \in Urls :
          (UrlTaken(u) /\ RegisterServer(i, u))
              => (storeResult' = "409" /\ servers' = servers)]_vars

\* C16: RegistryService.create_server with a URL that a registered server
\* already uses raises AlreadyExists and stores no second server with that
\* URL.
C16_ServiceCreateRaisesAlreadyExists ==
    [][\A i \in Servers, u \in Urls :
          (UrlTaken(u) /\ ServiceCreateServer(i, u))
              => (storeResult' = "already_exists" /\ servers' = servers)]_vars

\* C18: a server registered through a store that was opened for the path p
\* (by Database(p), get_database(p) or create_registry_app(p)) gets into
\* the file p whenever that file does not have its URL yet, whatever the
\* other files hold, and no operation through that store changes another
\* file.
C18_StoresAreIsolated ==
    [][\A h \in Handles, u \in Urls :
          /\ HandleCreateServer(h, u)
                => /\ u \in files'[h.asked]
                   /\ \A q \in Paths \ {h.asked} : files'[q] = files[q]
          /\ HandleDeleteServer(h, u)
                => \A q \in Paths \ {h.asked} : files'[q] = files[q]]_vars

(***************************************************************************)
(* Claims about capability discovery (checked under SpecDisc).             *)
(***************************************************************************)
\* some attempt of server s with status success is younger than the
\* freshness window
FreshSuccess(s) ==
    \E n \in 1..Len(attempts) :
        /\ attempts[n].server = s
        /\ attempts[n].status = "success"
        /\ clock - attempts[n].at < FreshWindow

\* the capability names of the rows WHERE server_id = s
StoredCapabilities(tbl, s) == IF s \in DOMAIN tbl THEN tbl[s] ELSE {}

\* a step in which call c ends its live part
LiveCallEnds(c) == c \in DOMAIN calls /\ c \notin DOMAIN calls'

\* C6: when the most recent successful attempt of a server is younger than
\* the freshness window, a discovery call without force-refresh makes no
\* live connection, and a response with status cached has discovery_time_ms
\* 0 and the capabilities stored for the server.
C6_FreshSuccessIsCached ==
    [][/\ \A c \in Calls :
            (c \notin DOMAIN calls /\ c \in DOMAIN calls' /\ ~calls'[c].force)
                => ~FreshSuccess(calls'[c].server)
       /\ (response' # response /\ response'.status = "cached")
            => /\ response'.time_ms = 0
               /\ response'.caps = caps[response'.server]]_vars

\* C7: when a live discovery run of a server ends successfully, the
\* capabilities stored for the server are exactly those the run discovered.
C7_StoredIsDiscovered ==
    [][\A c \in Calls :
          (LiveCallEnds(c) /\ response'.status = "success")
              => StoredCapabilities(caps', calls[c].server) = response'.caps]_vars

\* C10: every live discovery call that ends appends exactly one attempt row
\* for its server, and every other step leaves the attempt rows as they are
\* or deletes a server together with exactly its rows.
C10_OneRowPerLiveCall ==
    [][/\ \A c \in Calls :
            LiveCallEnds(c)
                => /\ Len(attempts') = Len(attempts) + 1
                   /\ SubSeq(attempts', 1, Len(attempts)) = attempts
                   /\ attempts'[Len(attempts')].server = calls[c].server
       /\ (\A c \in Calls : ~LiveCallEnds(c))
            => \/ attempts' = attempts
               \/ \E s \in registered \ registered' :
                     attempts' = WithoutServer(s)]_vars

\* C11: a discovery call answered with status cached adds no attempt row
\* and changes neither the stored capabilities nor the discovery counters
\* or the average response time of any server.
C11_CachedChangesNothing ==
    [][(response' # response /\ response'.status = "cached")
          => /\ attempts' = attempts
             /\ caps' = caps
             /\ stats' = stats]_vars

\* C11 witness: a call was answered from the cache for a server that has
\* stored capabilities, an attempt row and a counted discovery.
C11_Witness ==
    /\ response.status = "cached"
    /\ response.caps # {}
    /\ \E n \in 1..Len(attempts) : attempts[n].server = response.server
    /\ stats[response.server].total > 0

\* ids that were handed out and whose server has been deleted since
DeletedServers == (1..nextId) \ registered

\* C17: once a server is deleted, no capability row and no discovery-attempt
\* row references it, and a lookup of its id finds no server, whatever
\* happens later (discovery calls of that server still in flight included).
C17_DeleteCascades ==
    \A s \in DeletedServers :
        /\ StoredCapabilities(caps, s) = {}
        /\ \A n \in 1..Len(attempts) : attempts[n].server # s
        /\ s \notin DOMAIN stats

C17_Witness ==
    \E s \in DeletedServers :
        /\ response.server = s
        /\ response.status = "success"
        /\ response.caps # {}
        /\ discKind = "legacy"

\* C19: a probe with latency sample s on a server whose stored average is a
\* and whose total_discoveries is n leaves the average
\* ((a * n) + s) // (n + 1), floored.
C19_MovingAverage ==
    [][(response.status = "none" /\ response'.status = "probed")
          => stats'[1].avg =
                 ((stats[1].avg * stats[1].total) + response'.time_ms)
                     \div (stats[1].total + 1)]_vars

C19_Witness ==
    /\ response.status = "probed"
    /\ response.time_ms = 200
    /\ stats[1].total = 9
    /\ stats[1].avg = 110

\* a step in which call c ends a run with the listings of `failed` raising
PartialRunEnds(c, exposed, failed) ==
    \/ \E ms \in ElapsedMs, ping \in PingResults :
           LegacyPartialRun(c, exposed, failed, ms, ping)
    \/ EntPartialRun(c, exposed, failed)

\* C20: a run on a registered server whose connection succeeds while the
\* listing of one or more capability classes fails stores the capabilities
\* of the classes that succeeded and is recorded with status success.
C20_PartialIsSuccess ==
    [][\A c \in Calls, exposed \in SUBSET CapNames, failed \in FailedSets :
          (/\ failed # {}
           /\ c \in DOMAIN calls
           /\ calls[c].server \in registered
           /\ PartialRunEnds(c, exposed, failed))
              => /\ StoredCapabilities(caps', calls[c].server)
                       = Enumerated(exposed, failed)
                 /\ Len(attempts') = Len(attempts) + 1
                 /\ attempts'[Len(attempts')].server = calls[c].server
                 /\ attempts'[Len(attempts')].status = "success"]_vars

\* C21: a discovery call is bounded by its timeout: no call is still in its
\* live part when more than its timeout has passed since it started (it has
\* ended by then, recorded as failed).
C21_CallBoundedByTimeout ==
    \A c \in DOMAIN calls : clock - calls[c].start_time <= calls[c].timeout

\* C22: when a discovery run has ended, by returning or by raising, the
\* client connection it opened is closed.
C22_ConnectionClosedOnExit ==
    \A s \in DiscServers : runPc[s] \in {"done", "raised"} => conn[s] # "open"

\* C23: for a registered server every ProxyService operation gives back an
\* envelope that has a result or an error with code -32603; nothing is
\* raised to the caller.
C23_ProxyReturnsEnvelope ==
    \A op \in ProxyOps :
        LET r == proxySvc.results[op]
        IN  (r.kind # "none" /\ r.registered) =>
                /\ r.kind = "envelope"
                /\ r.has_result \/ r.code = InternalError

\* C24: the standalone proxy is constructed and served only after a
\* successful probe; after a failed probe nothing is constructed or served
\* and the process has exited with a non-zero code.
C24_ServeOnlyAfterProbe ==
    /\ (standalone.constructed \/ standalone.serving) => standalone.probe = "ok"
    /\ standalone.probe \in {"connect_error", "no_init_result"} =>
           /\ ~standalone.constructed /\ ~standalone.serving
           /\ standalone.pc = "exited" /\ standalone.exit_code > 0

\* a failed probe has ended the process of a command line that asked for
\* the registry API as well
C24_Witness ==
    /\ standalone.probe = "no_init_result"
    /\ standalone.args.transport = "http"
    /\ standalone.api
    /\ standalone.exit_code = 1

\* the rows of capability_discoveries of server s with a status in `which`
AttemptCount(s, which) ==
    Cardinality({n \in 1..Len(attempts) :
                    attempts[n].server = s /\ attempts[n].status \in which})

\* C27: for every server, total_discoveries is the number of live attempts
\* recorded for it, successful_discoveries the number of those with status
\* success, and successful_discoveries is at most total_discoveries.
C27_CountersMatchAttempts ==
    \A s \in registered :
        /\ stats[s].total = AttemptCount(s, {"success", "failed"})
        /\ stats[s].successful = AttemptCount(s, {"success"})
        /\ stats[s].successful <= stats[s].total

\* a server with a successful and a failed live discovery behind it
C27_Witness ==
    \E s \in registered :
        /\ stats[s].successful = 1
        /\ stats[s].total = 2
        /\ AttemptCount(s, {"failed"}) = 1

\* C28: after a successful live discovery, capabilities_found in the
\* response and in the recorded attempt equals the number of capability
\* rows stored for the server and the number of capabilities listed in the
\* response, also when an item is listed twice.
C28_FoundEqualsStoredAndListed ==
    response.status = "success" =>
        LET s == response.server
            history == HistoryOf(s)
        IN  /\ response.capabilities_found = Cardinality(StoredCapabilities(caps, s))
            /\ history[Len(history)].capabilities_found = response.capabilities_found
            /\ response.capabilities_found = Len(response.capabilities)

\* C30: when a discovery run ends for a server that was deleted while the
\* run was in progress, the store holds no capability row and no attempt
\* row of that server.
C30_NoRowsAfterDeleteDuringRun ==
    [][\A c \in DOMAIN calls :
          (c \notin DOMAIN calls' /\ calls[c].server \notin registered) =>
              /\ StoredCapabilities(caps', calls[c].server) = {}
              /\ \A n \in 1..Len(attempts') :
                     attempts'[n].server # calls[c].server]_vars

\* a legacy run has ended, by raising, after its server was deleted, and no
\* other run of that server is in flight
C30_Witness ==
    /\ discKind = "legacy"
    /\ response.status = "raised"
    /\ response.server \in DeletedServers
    /\ \A c \in DOMAIN calls : calls[c].server # response.server

(***************************************************************************)
(* Claims about the bulk scan (checked under SpecScan).                    *)
(***************************************************************************)
\* the per-server discoveries in progress
Running == {s \in DOMAIN taskPc : taskPc[s] = "running"}

\* the entries of the results list for server s
EntriesOf(s) == {n \in 1..Len(responses) : responses[n].server = s}

\* C8: during a bulk scan with max_concurrent = k at most k per-server
\* discoveries are in progress at any moment.
C8_AtMostKRunning == Cardinality(Running) <= scanK

\* C8 witness: a legacy scan with k > 1 has exactly k discoveries in
\* progress while another task waits for the semaphore.
C8_Witness ==
    /\ scanKind = "legacy"
    /\ scanK > 1
    /\ Cardinality(Running) = scanK
    /\ \E s \in DOMAIN taskPc : taskPc[s] = "waiting"

\* C9: when a bulk scan has returned, every server whose discovery failed or
\* raised has exactly one entry in the results and that entry has status
\* failed, and the discovery of every scanned server has completed.
C9_FailureGivesOneFailedEntry ==
    scanPc = "done" =>
        /\ \A s \in Servers : taskPc[s] = "done"
        /\ \A s \in Servers :
              truth[s] \in {"fails", "raises"}
                  => /\ Cardinality(EntriesOf(s)) = 1
                     /\ \A n \in EntriesOf(s) : responses[n].status = "failed"

(***************************************************************************)
(* Claims about the create and close requests of the hub (SpecApi).        *)
(***************************************************************************)

\* C12: a close request for a session that is in the map removes it from
\* the map and is answered with success, also when force-disconnecting the
\* client raises.
C12_CloseNeverFails ==
    [][\A t \in Tokens :
          (InMap(t) /\ reply'.op = "close" /\ reply'.token = t)
              => (reply'.status = 200 /\ sessions'[t] = NoSession
                  /\ t \notin {order'[i] : i \in 1..Len(order')})]_vars

C12_Witness ==
    /\ reply.op = "close"
    /\ reply.disconnect = "raises"
    /\ reply.status = 200
    /\ ~InMap(reply.token)
    /\ reply.token \in mounts

\* C13: a create request whose URL validate_remote_url rejects constructs
\* no client, mounts no proxy and adds no session.
C13_RejectedUrlChangesNothing ==
    [][(reply'.op = "create" /\ ValidateRemoteUrl(reply'.url) # 0)
          => /\ built' = built
             /\ mounts' = mounts
             /\ sessions' = sessions
             /\ order' = order
             /\ minted' = minted]_vars

C13_Witness ==
    /\ reply.op = "create"
    /\ reply.status = 400
    /\ LowerCase(reply.url.scheme) \in AllowedSchemes
    /\ built > 0
    /\ \E t \in Tokens : InMap(t)

(***************************************************************************)
(* Claims about validate_remote_url (SpecUrl).                             *)
(***************************************************************************)
\* the 24 leading bits of a dotted address, as a number
V4Prefix(o) == (o[1] * 256 + o[2]) * 256 + o[3]
Between(v, lo, hi) == lo <= v /\ v <= hi

\* RFC 1918 private, loopback and link-local IPv4 addresses:
\* 10/8, 172.16/12, 192.168/16, 127/8, 169.254/16
RfcLocalV4(o) ==
    \/ Between(V4Prefix(o), 10 * 65536, 10 * 65536 + 65535)
    \/ Between(V4Prefix(o), 172 * 65536 + 16 * 256, 172 * 65536 + 31 * 256 + 255)
    \/ Between(V4Prefix(o), 192 * 65536 + 168 * 256, 192 * 65536 + 168 * 256 + 255)
    \/ Between(V4Prefix(o), 127 * 65536, 127 * 65536 + 65535)
    \/ Between(V4Prefix(o), 169 * 65536 + 254 * 256, 169 * 65536 + 254 * 256 + 255)

\* unique-local fc00::/7, loopback ::1 and link-local fe80::/10
RfcLocalV6(g) ==
    \/ Between(g[1], 64512, 65023)
    \/ g = <<0, 0, 0, 0, 0, 0, 0, 1>>
    \/ Between(g[1], 65152, 65215)

\* the other special-purpose ranges: 0/8, 192.0.0.0/29, 192.0.0.170/31,
\* 192.0.2.0/24, 198.18/15, 198.51.100/24, 203.0.113/24, 240/4
SpecialV4(o) ==
    \/ Between(V4Prefix(o), 0, 65535)
    \/ V4Prefix(o) = 192 * 65536 /\ (Between(o[4], 0, 7) \/ Between(o[4], 170, 171))
    \/ V4Prefix(o) = 192 * 65536 + 2
    \/ Between(V4Prefix(o), 198 * 65536 + 18 * 256, 198 * 65536 + 19 * 256 + 255)
    \/ V4Prefix(o) = 198 * 65536 + 51 * 256 + 100
    \/ V4Prefix(o) = 203 * 65536 + 113
    \/ V4Prefix(o) >= 240 * 65536

\* the unspecified address ::, 100::/64, 2001::/23, 2001:db8::/32
SpecialV6(g) ==
    \/ g = <<0, 0, 0, 0, 0, 0, 0, 0>>
    \/ <<g[1], g[2], g[3], g[4]>> = <<256, 0, 0, 0>>
    \/ g[1] = 8193 /\ Between(g[2], 0, 511)
    \/ <<g[1], g[2]>> = <<8193, 3512>>

SchemeRefused(url) == LowerCase(url.scheme) \notin {"http", "https"}
HostDenied(url) == url.host \in DeniedHosts
LocalLiteral(url) ==
    \/ IsIPv4(url.host) /\ RfcLocalV4(url.host.nums)
    \/ IsIPv6(url.host) /\ RfcLocalV6(url.host.nums)
SpecialLiteral(url) ==
    \/ IsIPv4(url.host) /\ SpecialV4(url.host.nums)
    \/ IsIPv6(url.host) /\ SpecialV6(url.host.nums)

====
